---- MODULE Spec2Model ----
(***************************************************************************)
(* Model of the stack detector (detect-stack.py) and of the front-matter   *)
(* reader (read-config.py) of look-before-you-leap.                         *)
(*                                                                         *)
(* Python strings that are rendered, parsed or searched are sequences of   *)
(* one-character strings, so that the regular expressions, strip(),        *)
(* lower(), isdigit() and int() act on characters as they do in Python.    *)
(* The character SUPERSCRIPT TWO is written "U+00B2".  Dependency names    *)
(* are only ever compared for equality and are TLA+ strings.               *)
(*                                                                         *)
(* Python values are records [t |-> type, v |-> value]; a dict is the      *)
(* sequence of its entries [k |-> key, v |-> value] in insertion order.    *)
(***************************************************************************)
EXTENDS Integers, Sequences, FiniteSets, TLC

VARIABLES
    pc,                   \* position in the pipeline
    fs,                   \* the filesystem snapshot (read-only oracle)
    config,               \* build_config's return value, or the exception it raised
    text,                 \* the document text (render_config's result, or a hand-written file)
    lines,                \* parse_frontmatter: match.group(1).split('\n')
    idx,                  \* parse_frontmatter: index of the next line of the for loop
    result,               \* parse_frontmatter: result
    current_parent,       \* parse_frontmatter: current_parent
    current_child_list,   \* parse_frontmatter: current_child_list
    exc                   \* the exception parse_frontmatter raised, "" when none

vars == <<pc, fs, config, text, lines, idx, result, current_parent, current_child_list, exc>>

parserVars == <<lines, idx, result, current_parent, current_child_list, exc>>

(***************************************************************************)
(* Characters                                                              *)
(***************************************************************************)
Lower == {"a", "b", "c", "d", "e", "f", "g", "h", "i", "j", "k", "l", "m",
          "n", "o", "p", "q", "r", "s", "t", "u", "v", "w", "x", "y", "z"}

Upper == {"A", "B", "C", "D", "E", "F", "G", "H", "I", "J", "K", "L", "M",
          "N", "O", "P", "Q", "R", "S", "T", "U", "V", "W", "X", "Y", "Z"}

Digits == {"0", "1", "2", "3", "4", "5", "6", "7", "8", "9"}

\* str.isdigit() is also true of digits that are not decimal digits
SuperDigits == {"U+00B2"}

\* what \s and str.strip() take for white space
Whitespace == {" ", "\t", "\n"}

\* what [\w_] matches: Unicode alphanumerics and the underscore
WordChars == Lower \cup Upper \cup Digits \cup SuperDigits \cup {"_"}

\* the code point order of the characters that directory names are made of
CodeOrder == <<"-", ".", "0", "1", "2", "3", "4", "5", "6", "7", "8", "9",
               "A", "B", "C", "D", "E", "F", "G", "H", "I", "J", "K", "L", "M",
               "N", "O", "P", "Q", "R", "S", "T", "U", "V", "W", "X", "Y", "Z",
               "_",
               "a", "b", "c", "d", "e", "f", "g", "h", "i", "j", "k", "l", "m",
               "n", "o", "p", "q", "r", "s", "t", "u", "v", "w", "x", "y", "z">>

CodePoint(c) == CHOOSE i \in 1..Len(CodeOrder) : CodeOrder[i] = c

LowerOf == <<"a", "b", "c", "d", "e", "f", "g", "h", "i", "j", "k", "l", "m",
             "n", "o", "p", "q", "r", "s", "t", "u", "v", "w", "x", "y", "z">>

UpperOf == <<"A", "B", "C", "D", "E", "F", "G", "H", "I", "J", "K", "L", "M",
             "N", "O", "P", "Q", "R", "S", "T", "U", "V", "W", "X", "Y", "Z">>

lower_char(c) ==
    IF c \in Upper THEN LowerOf[CHOOSE i \in 1..26 : UpperOf[i] = c] ELSE c

\* str.lower()
lower(s) == [i \in 1..Len(s) |-> lower_char(s[i])]

(***************************************************************************)
(* Python values                                                           *)
(***************************************************************************)
PStr(s) == [t |-> "str", v |-> s]
PBool(b) == [t |-> "bool", v |-> b]
PInt(n) == [t |-> "int", v |-> n]
PList(xs) == [t |-> "list", v |-> xs]
PDict(es) == [t |-> "dict", v |-> es]
PNone == [t |-> "none", v |-> <<>>]
PExc(name) == [t |-> "exc", v |-> name]

DictHas(es, k) == \E i \in 1..Len(es) : es[i].k = k

DictGet(es, k) == es[CHOOSE i \in 1..Len(es) : es[i].k = k].v

\* d[k] = v: an existing key keeps its place, a new key goes last
DictSet(es, k, val) ==
    IF DictHas(es, k)
    THEN [i \in 1..Len(es) |-> IF es[i].k = k THEN [k |-> k, v |-> val] ELSE es[i]]
    ELSE Append(es, [k |-> k, v |-> val])

DictKeys(es) == [i \in 1..Len(es) |-> es[i].k]

(***************************************************************************)
(* String helpers                                                          *)
(***************************************************************************)
\* the length of the longest run of characters of cls that starts at s[from]
RunLen(s, from, cls) ==
    CHOOSE n \in 0..(Len(s) + 1 - from) :
        /\ \A i \in from..(from + n - 1) : s[i] \in cls
        /\ (from + n > Len(s) \/ s[from + n] \notin cls)

\* str.strip()
strip(s) ==
    LET a == RunLen(s, 1, Whitespace)
    IN  IF a = Len(s) THEN <<>>
        ELSE LET b == CHOOSE m \in (a + 1)..Len(s) :
                          /\ s[m] \notin Whitespace
                          /\ \A j \in (m + 1)..Len(s) : s[j] \in Whitespace
             IN  SubSeq(s, a + 1, b)

\* s.startswith(p)
startswith(s, p) == Len(s) >= Len(p) /\ SubSeq(s, 1, Len(p)) = p

\* s.endswith(p)
endswith(s, p) == Len(s) >= Len(p) /\ SubSeq(s, Len(s) - Len(p) + 1, Len(s)) = p

\* p in s, for two strings
contains(s, p) ==
    \E i \in 1..(Len(s) - Len(p) + 1) : SubSeq(s, i, i + Len(p) - 1) = p

\* str.isdigit(): non-empty and every character a digit
isdigit(s) == Len(s) > 0 /\ \A i \in 1..Len(s) : s[i] \in Digits \cup SuperDigits

DigitValue(c) == (CHOOSE i \in 1..10 : <<"0", "1", "2", "3", "4", "5", "6", "7", "8", "9">>[i] = c) - 1

RECURSIVE DecimalValue(_)
DecimalValue(s) ==
    IF Len(s) = 0 THEN 0
    ELSE 10 * DecimalValue(SubSeq(s, 1, Len(s) - 1)) + DigitValue(s[Len(s)])

\* int(s) for a string that passed isdigit(): only decimal digits convert
int(s) ==
    IF \A i \in 1..Len(s) : s[i] \in Digits
    THEN PInt(DecimalValue(s))
    ELSE PExc("ValueError")

RECURSIVE DecimalDigits(_)
DecimalDigits(n) ==
    IF n < 10 THEN <<<<"0", "1", "2", "3", "4", "5", "6", "7", "8", "9">>[n + 1]>>
    ELSE Append(DecimalDigits(n \div 10), <<"0", "1", "2", "3", "4", "5", "6", "7", "8", "9">>[(n % 10) + 1])

\* "\n".join(ls)
RECURSIVE join(_)
join(ls) ==
    IF Len(ls) = 0 THEN <<>>
    ELSE IF Len(ls) = 1 THEN ls[1]
    ELSE ls[1] \o <<"\n">> \o join(Tail(ls))

\* s.split('\n')
RECURSIVE split(_)
split(s) ==
    IF \A i \in 1..Len(s) : s[i] # "\n" THEN <<s>>
    ELSE LET p == CHOOSE i \in 1..Len(s) :
                      s[i] = "\n" /\ \A j \in 1..(i - 1) : s[j] # "\n"
         IN  <<SubSeq(s, 1, p - 1)>> \o split(SubSeq(s, p + 1, Len(s)))

(***************************************************************************)
(* read-config.py                                                          *)
(***************************************************************************)
\* _coerce(val)
_coerce(val) ==
    IF lower(val) = <<"t", "r", "u", "e">> THEN PBool(TRUE)
    ELSE IF lower(val) = <<"f", "a", "l", "s", "e">> THEN PBool(FALSE)
    ELSE IF isdigit(val) THEN int(val)
    ELSE IF \/ startswith(val, <<"\"">>) /\ endswith(val, <<"\"">>)
            \/ startswith(val, <<"'">>) /\ endswith(val, <<"'">>)
         THEN PStr(SubSeq(val, 2, Len(val) - 1))
    ELSE PStr(val)

NoMatch == [ok |-> FALSE, g1 |-> <<>>, g2 |-> <<>>]

\* re.match(r'^---\s*\n(.*?)\n---', text, re.DOTALL): \s* is greedy and gives
\* back until the rest matches; (.*?) ends at the first "\n---" after it
frontmatter_match(txt) ==
    IF ~startswith(txt, <<"-", "-", "-">>) THEN NoMatch
    ELSE
        LET w == RunLen(txt, 4, Whitespace)
            Closes(e) == /\ e + 3 <= Len(txt)
                         /\ SubSeq(txt, e, e + 3) = <<"\n", "-", "-", "-">>
            Opens == {p \in 4..(3 + w) :
                          txt[p] = "\n" /\ \E e \in (p + 1)..Len(txt) : Closes(e)}
        IN  IF Opens = {} THEN NoMatch
            ELSE LET p == CHOOSE q \in Opens : \A r \in Opens : r <= q
                     e == CHOOSE d \in (p + 1)..Len(txt) :
                              Closes(d) /\ \A c \in (p + 1)..(d - 1) : ~Closes(c)
                 IN  [ok |-> TRUE, g1 |-> SubSeq(txt, p + 1, e - 1), g2 |-> <<>>]

\* re.match(r'^\s+-\s+(.+)', line): when nothing follows the white space after
\* the dash, \s+ gives back its last character to (.+)
list_match(line) ==
    LET n == RunLen(line, 1, Whitespace)
        m == RunLen(line, n + 2, Whitespace)
    IN  IF /\ n >= 1
           /\ Len(line) >= n + 3
           /\ line[n + 1] = "-"
           /\ m >= 1
        THEN [ok |-> TRUE,
              g1 |-> IF n + 1 + m < Len(line)
                     THEN SubSeq(line, n + 2 + m, Len(line))
                     ELSE <<line[Len(line)]>>,
              g2 |-> <<>>]
        ELSE NoMatch

\* ([\w_]+)\s*:\s*(.*) matched at line[from]
key_match(line, from) ==
    LET w == RunLen(line, from, WordChars)
        s == RunLen(line, from + w, Whitespace)
        colon == from + w + s
        s2 == RunLen(line, colon + 1, Whitespace)
    IN  IF w >= 1 /\ colon <= Len(line) /\ line[colon] = ":"
        THEN [ok |-> TRUE,
              g1 |-> SubSeq(line, from, from + w - 1),
              g2 |-> SubSeq(line, colon + 1 + s2, Len(line))]
        ELSE NoMatch

\* re.match(r'^\s+([\w_]+)\s*:\s*(.*)', line)
child_match(line) ==
    LET n == RunLen(line, 1, Whitespace)
    IN  IF n >= 1 THEN key_match(line, n + 1) ELSE NoMatch

\* re.match(r'^([\w_]+)\s*:\s*(.*)', line)
top_match(line) == key_match(line, 1)

NoParent == [set |-> FALSE, key |-> <<>>]
Parent(k) == [set |-> TRUE, key |-> k]
NoList == [set |-> FALSE, parent |-> <<>>, child |-> <<>>]
ChildList(p, c) == [set |-> TRUE, parent |-> p, child |-> c]

ParserState(r, cp, ccl, e) ==
    [result |-> r, current_parent |-> cp, current_child_list |-> ccl, exc |-> e]

\* result[parent_key][child_key].append(item)
list_append(st, item) ==
    LET pk == st.current_child_list.parent
        ck == st.current_child_list.child
    IN  IF item.t = "exc" THEN [st EXCEPT !.exc = item.v]
        ELSE IF ~DictHas(st.result, pk) THEN [st EXCEPT !.exc = "KeyError"]
        ELSE IF DictGet(st.result, pk).t # "dict" THEN [st EXCEPT !.exc = "TypeError"]
        ELSE IF ~DictHas(DictGet(st.result, pk).v, ck) THEN [st EXCEPT !.exc = "KeyError"]
        ELSE IF DictGet(DictGet(st.result, pk).v, ck).t # "list"
             THEN [st EXCEPT !.exc = "AttributeError"]
        ELSE [st EXCEPT !.result =
                 DictSet(st.result, pk,
                     PDict(DictSet(DictGet(st.result, pk).v, ck,
                         PList(Append(DictGet(DictGet(st.result, pk).v, ck).v, item)))))]

\* result[current_parent][key] = val
child_assign(st, key, val) ==
    LET pk == st.current_parent.key
    IN  IF val.t = "exc" THEN [st EXCEPT !.exc = val.v]
        ELSE IF ~DictHas(st.result, pk) THEN [st EXCEPT !.exc = "KeyError"]
        ELSE IF DictGet(st.result, pk).t # "dict" THEN [st EXCEPT !.exc = "TypeError"]
        ELSE [st EXCEPT !.result =
                 DictSet(st.result, pk, PDict(DictSet(DictGet(st.result, pk).v, key, val)))]

\* skip_line with the current parent cleared by a comment line too
skip_line_clears_parent(st, stripped) ==
    [st EXCEPT !.current_child_list = NoList, !.current_parent = NoParent]

\* a blank or comment line: current_child_list = None, and
\* current_parent = None if not stripped else current_parent
skip_line(st, stripped) ==
    [st EXCEPT !.current_child_list = NoList,
               !.current_parent = IF stripped = <<>> THEN NoParent ELSE @]

\* end_list with the list left open
end_list_keeps(st) == st

\* a line that is not a list item ends the list: current_child_list = None
end_list(st) == [st EXCEPT !.current_child_list = NoList]

\* top_assign with the current parent left open
top_assign_keeps_parent(st, key, val) ==
    IF val.t = "exc" THEN [st EXCEPT !.exc = val.v]
    ELSE [st EXCEPT !.result = DictSet(@, key, val)]

\* a top-level scalar: result[key] = _coerce(val); current_parent = None
top_assign(st, key, val) ==
    IF val.t = "exc" THEN [st EXCEPT !.exc = val.v]
    ELSE [st EXCEPT !.result = DictSet(@, key, val), !.current_parent = NoParent]

\* one iteration of the for loop of parse_frontmatter
parse_line(st, line) ==
    LET stripped == strip(line)
        lm == list_match(line)
        cm == child_match(line)
        tm == top_match(line)
        ended == end_list(st)
    IN  IF stripped = <<>> \/ startswith(stripped, <<"#">>)
        THEN skip_line(st, stripped)
        ELSE IF lm.ok /\ st.current_child_list.set
        THEN list_append(st, _coerce(strip(lm.g1)))
        ELSE IF startswith(line, <<" ", " ">>) /\ ended.current_parent.set
        THEN IF ~cm.ok THEN ended
             ELSE IF strip(cm.g2) # <<>>
             THEN child_assign(ended, cm.g1, _coerce(strip(cm.g2)))
             ELSE [child_assign(ended, cm.g1, PList(<<>>))
                      EXCEPT !.current_child_list = ChildList(ended.current_parent.key, cm.g1)]
        ELSE IF ~tm.ok THEN ended
        ELSE IF strip(tm.g2) # <<>>
        THEN top_assign(ended, tm.g1, _coerce(strip(tm.g2)))
        ELSE [ended EXCEPT !.result = DictSet(@, tm.g1, PDict(<<>>)),
                           !.current_parent = Parent(tm.g1)]

(***************************************************************************)
(* detect-stack.py: the filesystem and the manifests                       *)
(***************************************************************************)
\* A manifest file is missing, unreadable (open raises OSError), invalid
\* (json.load raises JSONDecodeError) or holds the JSON value `value`.
Missing == [state |-> "missing", value |-> PNone]
Unreadable == [state |-> "unreadable", value |-> PNone]
Invalid == [state |-> "invalid", value |-> PNone]
Json(val) == [state |-> "json", value |-> val]

\* read_json(path)
read_json(file) == IF file.state = "json" THEN file.value ELSE PNone

\* file_exists(f"{root}/{name}") for the marker and lock files of the root
file_exists(f, name) == name \in f.files

\* file_exists(path) for a manifest
manifest_exists(file) == file.state # "missing"

\* dir_exists(f"{root}/{parent}")
dir_exists(f, parent) == f.dirs[parent].state # "absent"

\* the tuple ("apps", "packages", "services", "libs")
workspace_parents == <<"apps", "packages", "services", "libs">>

parent_name(parent) ==
    CASE parent = "apps" -> <<"a", "p", "p", "s">>
      [] parent = "packages" -> <<"p", "a", "c", "k", "a", "g", "e", "s">>
      [] parent = "services" -> <<"s", "e", "r", "v", "i", "c", "e", "s">>
      [] parent = "libs" -> <<"l", "i", "b", "s">>

\* bool(v)
truthy(val) ==
    CASE val.t = "none" -> FALSE
      [] val.t = "bool" -> val.v
      [] val.t = "int" -> val.v # 0
      [] val.t \in {"str", "list", "dict"} -> Len(val.v) > 0

\* key in container, for a string key: a dict looks among its keys, a list
\* among its elements, a string for a substring; anything else raises
py_in(key, container) ==
    CASE container.t = "dict" -> PBool(DictHas(container.v, key))
      [] container.t = "list" ->
             PBool(\E i \in 1..Len(container.v) : container.v[i] = PStr(key))
      [] container.t = "str" -> PBool(contains(container.v, key))
      [] OTHER -> PExc("TypeError")

\* container.get(key, default): only a dict has get
py_get(container, key, default) ==
    IF container.t # "dict" THEN PExc("AttributeError")
    ELSE IF DictHas(container.v, key) THEN DictGet(container.v, key)
    ELSE default

k_dependencies == <<"d", "e", "p", "e", "n", "d", "e", "n", "c", "i", "e", "s">>
k_devDependencies == <<"d", "e", "v", "D", "e", "p", "e", "n", "d", "e", "n", "c", "i", "e", "s">>
k_peerDependencies == <<"p", "e", "e", "r", "D", "e", "p", "e", "n", "d", "e", "n", "c", "i", "e", "s">>
k_scripts == <<"s", "c", "r", "i", "p", "t", "s">>
k_workspaces == <<"w", "o", "r", "k", "s", "p", "a", "c", "e", "s">>
k_name == <<"n", "a", "m", "e">>
k_test == <<"t", "e", "s", "t">>

s_typescript == <<"t", "y", "p", "e", "s", "c", "r", "i", "p", "t">>
s_javascript == <<"j", "a", "v", "a", "s", "c", "r", "i", "p", "t">>
s_bun == <<"b", "u", "n">>

\* str.lower() == 'true' and the like are tests on these
IsJsTs(language) == language \in {s_typescript, s_javascript}

(***************************************************************************)
(* detect-stack.py: the detectors                                          *)
(***************************************************************************)
\* the entries os.listdir(parent_dir) returns; [] when it raises OSError
listdir(f, parent) ==
    IF f.dirs[parent].state = "ok" THEN f.dirs[parent].entries ELSE <<>>

\* detect_language(root)
detect_language(f) ==
    IF file_exists(f, "tsconfig.json") \/ file_exists(f, "tsconfig.base.json")
    THEN s_typescript
    ELSE IF \E p \in 1..Len(workspace_parents) :
                /\ dir_exists(f, workspace_parents[p])
                /\ \E i \in 1..Len(listdir(f, workspace_parents[p])) :
                       listdir(f, workspace_parents[p])[i].tsconfig
    THEN s_typescript
    ELSE IF manifest_exists(f.rootpkg) THEN s_javascript
    ELSE IF file_exists(f, "Cargo.toml") THEN <<"r", "u", "s", "t">>
    ELSE IF file_exists(f, "pyproject.toml") \/ file_exists(f, "setup.py") THEN <<"p", "y", "t", "h", "o", "n">>
    ELSE IF file_exists(f, "go.mod") THEN <<"g", "o">>
    ELSE <<>>

\* detect_runtime without the runtime the language implies
detect_runtime_bun_only(language, package_manager) ==
    IF package_manager = s_bun THEN s_bun ELSE <<>>

\* detect_runtime(language, package_manager)
detect_runtime(language, package_manager) ==
    IF package_manager = s_bun THEN s_bun
    ELSE IF IsJsTs(language) THEN <<"n", "o", "d", "e">>
    ELSE <<>>

\* detect_package_manager(root)
detect_package_manager(f) ==
    IF file_exists(f, "pnpm-lock.yaml") THEN <<"p", "n", "p", "m">>
    ELSE IF file_exists(f, "bun.lockb") \/ file_exists(f, "bun.lock") THEN s_bun
    ELSE IF file_exists(f, "yarn.lock") THEN <<"y", "a", "r", "n">>
    ELSE IF file_exists(f, "package-lock.json") THEN <<"n", "p", "m">>
    ELSE <<>>

\* detect_monorepo(root): a bool, or the exception of '"workspaces" in pkg'
detect_monorepo(f) ==
    LET pkg == read_json(f.rootpkg)
    IN  IF \E m \in {"pnpm-workspace.yaml", "turbo.json", "lerna.json", "nx.json"} :
               file_exists(f, m)
        THEN PBool(TRUE)
        ELSE IF ~truthy(pkg) THEN PBool(FALSE)
        ELSE py_in(k_workspaces, pkg)

\* the DependencySet is a Python set; it is kept as the sequence of its
\* members in the order they were first inserted (one iteration order)
set_contains(deps, dep) == \E i \in 1..Len(deps) : deps[i] = dep

RECURSIVE set_update(_, _)
set_update(deps, keys) ==
    IF Len(keys) = 0 THEN deps
    ELSE set_update(IF set_contains(deps, keys[1]) THEN deps ELSE Append(deps, keys[1]),
                    Tail(keys))

NoDeps == [deps |-> <<>>, exc |-> ""]

\* add_deps_from(pkg) of collect_all_deps, acting on the set so far
add_deps_from(acc, pkg) ==
    LET Field(key) == py_get(pkg, key, PDict(<<>>))
        Add(deps, key) ==
            IF Field(key).t = "dict" THEN set_update(deps, DictKeys(Field(key).v)) ELSE deps
    IN  IF acc.exc # "" THEN acc
        ELSE IF ~truthy(pkg) THEN acc
        ELSE IF pkg.t # "dict" THEN [acc EXCEPT !.exc = "AttributeError"]
        ELSE [acc EXCEPT !.deps =
                 Add(Add(Add(@, k_dependencies), k_devDependencies), k_peerDependencies)]

RECURSIVE add_deps_entries(_, _)
add_deps_entries(acc, entries) ==
    IF Len(entries) = 0 THEN acc
    ELSE add_deps_entries(add_deps_from(acc, read_json(entries[1].pkg)), Tail(entries))

RECURSIVE collect_workspaces(_, _, _)
collect_workspaces(acc, f, p) ==
    IF p > Len(workspace_parents) THEN acc
    ELSE collect_workspaces(
             IF dir_exists(f, workspace_parents[p])
             THEN add_deps_entries(acc, listdir(f, workspace_parents[p]))
             ELSE acc,
             f, p + 1)

\* collect_all_deps(root)
collect_all_deps(f) ==
    collect_workspaces(add_deps_from(NoDeps, read_json(f.rootpkg)), f, 1)

frontend_map == <<
    [dep |-> "react", name |-> <<"r", "e", "a", "c", "t">>],
    [dep |-> "react-dom", name |-> <<"r", "e", "a", "c", "t">>],
    [dep |-> "next", name |-> <<"n", "e", "x", "t">>],
    [dep |-> "vue", name |-> <<"v", "u", "e">>],
    [dep |-> "nuxt", name |-> <<"n", "u", "x", "t">>],
    [dep |-> "svelte", name |-> <<"s", "v", "e", "l", "t", "e">>],
    [dep |-> "@sveltejs/kit", name |-> <<"s", "v", "e", "l", "t", "e", "k", "i", "t">>],
    [dep |-> "solid-js", name |-> <<"s", "o", "l", "i", "d">>],
    [dep |-> "@angular/core", name |-> <<"a", "n", "g", "u", "l", "a", "r">>]>>

backend_map == <<
    [dep |-> "hono", name |-> <<"h", "o", "n", "o">>],
    [dep |-> "express", name |-> <<"e", "x", "p", "r", "e", "s", "s">>],
    [dep |-> "fastify", name |-> <<"f", "a", "s", "t", "i", "f", "y">>],
    [dep |-> "@nestjs/core", name |-> <<"n", "e", "s", "t", "j", "s">>],
    [dep |-> "koa", name |-> <<"k", "o", "a">>]>>

validation_map == <<
    [dep |-> "zod", name |-> <<"z", "o", "d">>],
    [dep |-> "valibot", name |-> <<"v", "a", "l", "i", "b", "o", "t">>],
    [dep |-> "joi", name |-> <<"j", "o", "i">>],
    [dep |-> "yup", name |-> <<"y", "u", "p">>],
    [dep |-> "ajv", name |-> <<"a", "j", "v">>]>>

styling_map == <<
    [dep |-> "tailwindcss", name |-> <<"t", "a", "i", "l", "w", "i", "n", "d">>],
    [dep |-> "@tailwindcss/postcss", name |-> <<"t", "a", "i", "l", "w", "i", "n", "d">>],
    [dep |-> "styled-components", name |-> <<"s", "t", "y", "l", "e", "d", "-", "c", "o", "m", "p", "o", "n", "e", "n", "t", "s">>],
    [dep |-> "@emotion/react", name |-> <<"e", "m", "o", "t", "i", "o", "n">>]>>

testing_map == <<
    [dep |-> "vitest", name |-> <<"v", "i", "t", "e", "s", "t">>],
    [dep |-> "jest", name |-> <<"j", "e", "s", "t">>],
    [dep |-> "@playwright/test", name |-> <<"p", "l", "a", "y", "w", "r", "i", "g", "h", "t">>],
    [dep |-> "cypress", name |-> <<"c", "y", "p", "r", "e", "s", "s">>],
    [dep |-> "mocha", name |-> <<"m", "o", "c", "h", "a">>]>>

orm_map == <<
    [dep |-> "drizzle-orm", name |-> <<"d", "r", "i", "z", "z", "l", "e">>],
    [dep |-> "prisma", name |-> <<"p", "r", "i", "s", "m", "a">>],
    [dep |-> "@prisma/client", name |-> <<"p", "r", "i", "s", "m", "a">>],
    [dep |-> "convex", name |-> <<"c", "o", "n", "v", "e", "x">>],
    [dep |-> "typeorm", name |-> <<"t", "y", "p", "e", "o", "r", "m">>],
    [dep |-> "sequelize", name |-> <<"s", "e", "q", "u", "e", "l", "i", "z", "e">>],
    [dep |-> "kysely", name |-> <<"k", "y", "s", "e", "l", "y">>],
    [dep |-> "mongoose", name |-> <<"m", "o", "n", "g", "o", "o", "s", "e">>]>>

k_frontend == <<"f", "r", "o", "n", "t", "e", "n", "d">>
k_backend == <<"b", "a", "c", "k", "e", "n", "d">>
k_validation == <<"v", "a", "l", "i", "d", "a", "t", "i", "o", "n">>
k_styling == <<"s", "t", "y", "l", "i", "n", "g">>
k_testing == <<"t", "e", "s", "t", "i", "n", "g">>
k_orm == <<"o", "r", "m">>

\* table_scan led by the DependencySet: the first name, in the set's
\* iteration order, that the table lists
table_scan_by_insertion(res, category, table, deps) ==
    IF \E i \in 1..Len(table) : set_contains(deps, table[i].dep)
    THEN LET first == CHOOSE d \in 1..Len(deps) :
                          /\ \E i \in 1..Len(table) : table[i].dep = deps[d]
                          /\ \A e \in 1..(d - 1) : \A i \in 1..Len(table) : table[i].dep # deps[e]
         IN  DictSet(res, category,
                     PStr(table[CHOOSE i \in 1..Len(table) : table[i].dep = deps[first]].name))
    ELSE res

\* for dep, name in table.items(): if dep in deps: result[category] = name; break
table_scan(res, category, table, deps) ==
    IF \E i \in 1..Len(table) : set_contains(deps, table[i].dep)
    THEN LET first == CHOOSE i \in 1..Len(table) :
                          /\ set_contains(deps, table[i].dep)
                          /\ \A j \in 1..(i - 1) : ~set_contains(deps, table[j].dep)
         IN  DictSet(res, category, PStr(table[first].name))
    ELSE res

\* if "next" in deps and "frontend" not in result: result["backend"] = "next"
next_rule(res, deps) ==
    IF set_contains(deps, "next") /\ ~DictHas(res, k_frontend)
    THEN DictSet(res, k_backend, PStr(<<"n", "e", "x", "t">>))
    ELSE res

\* the bun test fallback of detect_from_deps: the result, or the exception
bun_test_fallback(res, root_scripts, package_manager) ==
    LET scripts == IF truthy(root_scripts) THEN root_scripts ELSE PDict(<<>>)
        test_script == py_get(scripts, k_test, PStr(<<>>))
        in1 == py_in(<<"b", "u", "n", " ", "t", "e", "s", "t">>, test_script)
        in2 == py_in(<<"b", "u", "n", " ", "r", "u", "n", " ", "t", "e", "s", "t">>, test_script)
    IN  IF DictHas(res, k_testing) \/ package_manager # s_bun THEN PDict(res)
        ELSE IF test_script.t = "exc" THEN test_script
        ELSE IF in1.t = "exc" THEN in1
        ELSE IF in1.v THEN PDict(DictSet(res, k_testing, PStr(<<"b", "u", "n", "-", "t", "e", "s", "t">>)))
        ELSE IF in2.t = "exc" THEN in2
        ELSE IF in2.v THEN PDict(DictSet(res, k_testing, PStr(<<"b", "u", "n", "-", "t", "e", "s", "t">>)))
        ELSE PDict(res)

\* detect_from_deps(deps, root_scripts, package_manager): a dict, or the exception
detect_from_deps(deps, root_scripts, package_manager) ==
    LET r1 == table_scan(<<>>, k_frontend, frontend_map, deps)
        r2 == table_scan(next_rule(r1, deps), k_backend, backend_map, deps)
        r3 == table_scan(r2, k_validation, validation_map, deps)
        r4 == table_scan(r3, k_styling, styling_map, deps)
        r5 == table_scan(r4, k_testing, testing_map, deps)
        r6 == bun_test_fallback(r5, root_scripts, package_manager)
    IN  IF r6.t = "exc" THEN r6
        ELSE PDict(table_scan(r6.v, k_orm, orm_map, deps))

\* a < b for two strings: Python compares them code point by code point
str_lt(a, b) ==
    \E i \in 1..Len(b) :
        /\ i - 1 <= Len(a)
        /\ SubSeq(a, 1, i - 1) = SubSeq(b, 1, i - 1)
        /\ (i = Len(a) + 1 \/ (i <= Len(a) /\ CodePoint(a[i]) < CodePoint(b[i])))

\* sorted(os.listdir(parent)): the entries by name, smallest first
RECURSIVE sorted(_)
sorted(entries) ==
    IF Len(entries) <= 1 THEN entries
    ELSE LET m == CHOOSE i \in 1..Len(entries) :
                      \A j \in 1..Len(entries) :
                          j = i \/ str_lt(entries[i].name, entries[j].name)
         IN  <<entries[m]>> \o
             sorted([k \in 1..(Len(entries) - 1) |->
                        IF k < m THEN entries[k] ELSE entries[k + 1]])

k_shared_api_package == <<"s", "h", "a", "r", "e", "d", "_", "a", "p", "i", "_", "p", "a", "c", "k", "a", "g", "e">>
k_shared_packages == <<"s", "h", "a", "r", "e", "d", "_", "p", "a", "c", "k", "a", "g", "e", "s">>
k_api_dir == <<"a", "p", "i", "_", "d", "i", "r">>
k_web_dir == <<"w", "e", "b", "_", "d", "i", "r">>

NoStructure == [structure |-> <<>>, shared_packages |-> <<>>, exc |-> ""]

\* the body of the inner for loop of detect_structure, for one entry
structure_entry(acc, workspace_parent, entry) ==
    LET pkg == read_json(entry.pkg)
        name == py_get(pkg, k_name, PStr(<<>>))
        entry_path == parent_name(workspace_parent) \o <<"/">> \o entry.name
    IN  IF acc.exc # "" THEN acc
        ELSE IF ~truthy(pkg) THEN acc
        ELSE IF name.t = "exc" THEN [acc EXCEPT !.exc = name.v]
        ELSE IF workspace_parent = "packages"
        THEN [acc EXCEPT
                 !.structure = IF contains(lower(entry.name), <<"a", "p", "i">>)
                               THEN DictSet(@, k_shared_api_package, name)
                               ELSE @,
                 !.shared_packages = IF truthy(name)
                                     THEN Append(@, PStr(entry_path))
                                     ELSE @]
        ELSE IF workspace_parent = "apps"
        THEN IF lower(entry.name) \in {<<"a", "p", "i">>, <<"s", "e", "r", "v", "e", "r">>, <<"b", "a", "c", "k", "e", "n", "d">>}
             THEN [acc EXCEPT !.structure = DictSet(@, k_api_dir, PStr(entry_path))]
             ELSE IF lower(entry.name) \in {<<"w", "e", "b">>, <<"a", "p", "p">>, <<"c", "l", "i", "e", "n", "t">>, <<"f", "r", "o", "n", "t", "e", "n", "d">>}
             THEN [acc EXCEPT !.structure = DictSet(@, k_web_dir, PStr(entry_path))]
             ELSE acc
        ELSE acc

RECURSIVE structure_entries(_, _, _)
structure_entries(acc, workspace_parent, entries) ==
    IF Len(entries) = 0 THEN acc
    ELSE structure_entries(structure_entry(acc, workspace_parent, entries[1]),
                           workspace_parent, Tail(entries))

\* structure_listing without sorted()
structure_listing_unsorted(f, parent) == listdir(f, parent)

\* sorted(os.listdir(parent)) in detect_structure
structure_listing(f, parent) == sorted(listdir(f, parent))

RECURSIVE structure_parents(_, _, _)
structure_parents(acc, f, p) ==
    IF p > Len(workspace_parents) THEN acc
    ELSE structure_parents(
             IF dir_exists(f, workspace_parents[p])
             THEN structure_entries(acc, workspace_parents[p],
                                    structure_listing(f, workspace_parents[p]))
             ELSE acc,
             f, p + 1)

\* detect_structure(root, is_monorepo): a dict, or the exception
detect_structure(f, is_monorepo) ==
    LET acc == structure_parents(NoStructure, f, 1)
    IN  IF ~is_monorepo THEN PDict(<<>>)
        ELSE IF acc.exc # "" THEN PExc(acc.exc)
        ELSE IF Len(acc.shared_packages) > 0
        THEN PDict(DictSet(acc.structure, k_shared_packages, PList(acc.shared_packages)))
        ELSE PDict(acc.structure)

\* should_enable_api_contracts(detected)
should_enable_api_contracts(detected) ==
    truthy(py_get(PDict(detected), k_backend, PNone))

k_typecheck == <<"t", "y", "p", "e", "c", "h", "e", "c", "k">>
k_lint == <<"l", "i", "n", "t">>
k_build == <<"b", "u", "i", "l", "d">>

script_map == <<
    [script_name |-> <<"t", "y", "p", "e", "c", "h", "e", "c", "k">>, category |-> k_typecheck],
    [script_name |-> <<"t", "y", "p", "e", "-", "c", "h", "e", "c", "k">>, category |-> k_typecheck],
    [script_name |-> <<"t", "s", "c">>, category |-> k_typecheck],
    [script_name |-> <<"t", "s", "g", "o">>, category |-> k_typecheck],
    [script_name |-> <<"c", "h", "e", "c", "k", "-", "t", "y", "p", "e", "s">>, category |-> k_typecheck],
    [script_name |-> <<"l", "i", "n", "t">>, category |-> k_lint],
    [script_name |-> <<"e", "s", "l", "i", "n", "t">>, category |-> k_lint],
    [script_name |-> <<"t", "e", "s", "t">>, category |-> k_test],
    [script_name |-> <<"t", "e", "s", "t", ":", "u", "n", "i", "t">>, category |-> k_test],
    [script_name |-> <<"b", "u", "i", "l", "d">>, category |-> k_build]>>

\* the loop without its "category not in commands" test: a later table
\* entry replaces the name an earlier one stored
RECURSIVE script_scan_overwrite(_, _, _)
script_scan_overwrite(commands, scripts, i) ==
    IF i > Len(script_map) THEN PDict(commands)
    ELSE LET present == py_in(script_map[i].script_name, scripts)
         IN  IF present.t = "exc" THEN present
             ELSE script_scan_overwrite(
                      IF present.v
                      THEN DictSet(commands, script_map[i].category,
                                   PStr(script_map[i].script_name))
                      ELSE commands,
                      scripts, i + 1)

\* the for loop over script_map.items(), from entry i on
RECURSIVE script_scan(_, _, _)
script_scan(commands, scripts, i) ==
    IF i > Len(script_map) THEN PDict(commands)
    ELSE LET present == py_in(script_map[i].script_name, scripts)
         IN  IF present.t = "exc" THEN present
             ELSE script_scan(
                      IF present.v /\ ~DictHas(commands, script_map[i].category)
                      THEN DictSet(commands, script_map[i].category,
                                   PStr(script_map[i].script_name))
                      ELSE commands,
                      scripts, i + 1)

\* detect_verification_commands(root): a dict, or the exception
detect_verification_commands(f) ==
    LET pkg == read_json(f.rootpkg)
        scripts == py_get(pkg, k_scripts, PDict(<<>>))
    IN  IF ~truthy(pkg) THEN PDict(<<>>)
        ELSE IF scripts.t = "exc" THEN scripts
        ELSE IF ~truthy(scripts) THEN PDict(<<>>)
        ELSE script_scan(<<>>, scripts, 1)

k_language == <<"l", "a", "n", "g", "u", "a", "g", "e">>
k_runtime == <<"r", "u", "n", "t", "i", "m", "e">>
k_package_manager == <<"p", "a", "c", "k", "a", "g", "e", "_", "m", "a", "n", "a", "g", "e", "r">>
k_monorepo == <<"m", "o", "n", "o", "r", "e", "p", "o">>
k_api_contracts == <<"a", "p", "i", "_", "c", "o", "n", "t", "r", "a", "c", "t", "s">>
k_plan_enforcement == <<"p", "l", "a", "n", "_", "e", "n", "f", "o", "r", "c", "e", "m", "e", "n", "t">>

RECURSIVE dict_update(_, _)
dict_update(es, other) ==
    IF Len(other) = 0 THEN es
    ELSE dict_update(DictSet(es, other[1].k, other[1].v), Tail(other))

Raised(name) ==
    [stack |-> <<>>, structure |-> <<>>, disciplines |-> <<>>, verification |-> <<>>,
     exc |-> name]

\* the stack dict build_config assembles
build_stack(language, runtime, package_manager, is_monorepo, from_deps) ==
    LET s1 == IF language # <<>> THEN <<[k |-> k_language, v |-> PStr(language)]>> ELSE <<>>
        s2 == IF runtime # <<>> THEN DictSet(s1, k_runtime, PStr(runtime)) ELSE s1
        s3 == IF package_manager # <<>>
              THEN DictSet(s2, k_package_manager, PStr(package_manager)) ELSE s2
    IN  dict_update(DictSet(s3, k_monorepo, PBool(is_monorepo)), from_deps)

\* root_scripts = root_pkg.get("scripts", {}) if root_pkg else {}
root_scripts_of(f) ==
    IF truthy(read_json(f.rootpkg))
    THEN py_get(read_json(f.rootpkg), k_scripts, PDict(<<>>))
    ELSE PDict(<<>>)

\* deps = collect_all_deps(root) if language in ("typescript", "javascript") else set()
dependency_set(f, language) ==
    IF IsJsTs(language) THEN collect_all_deps(f) ELSE NoDeps

\* build_config(root): (stack, structure, disciplines, verification), or the
\* first exception a statement of it raises
build_config(f) ==
    LET language == detect_language(f)
        package_manager == detect_package_manager(f)
        runtime == detect_runtime(language, package_manager)
        is_monorepo == detect_monorepo(f)
        root_scripts == root_scripts_of(f)
        deps == dependency_set(f, language)
        from_deps == detect_from_deps(deps.deps, root_scripts, package_manager)
        structure == detect_structure(f, is_monorepo.v)
        verification == detect_verification_commands(f)
    IN  IF is_monorepo.t = "exc" THEN Raised(is_monorepo.v)
        ELSE IF root_scripts.t = "exc" THEN Raised(root_scripts.v)
        ELSE IF deps.exc # "" THEN Raised(deps.exc)
        ELSE IF from_deps.t = "exc" THEN Raised(from_deps.v)
        ELSE IF structure.t = "exc" THEN Raised(structure.v)
        ELSE IF verification.t = "exc" THEN Raised(verification.v)
        ELSE [stack |-> build_stack(language, runtime, package_manager,
                                    is_monorepo.v, from_deps.v),
              structure |-> structure.v,
              disciplines |-> <<[k |-> k_api_contracts,
                                 v |-> PBool(should_enable_api_contracts(from_deps.v))],
                                [k |-> k_plan_enforcement, v |-> PBool(TRUE)]>>,
              verification |-> verification.v,
              exc |-> ""]

\* _yaml_val with str(v) for a bool as well
yaml_val_str(val) ==
    CASE val.t = "bool" -> IF val.v THEN <<"T", "r", "u", "e">> ELSE <<"F", "a", "l", "s", "e">>
      [] val.t = "str" -> val.v
      [] val.t = "int" -> DecimalDigits(val.v)
      [] val.t = "none" -> <<"N", "o", "n", "e">>

\* _yaml_val(v): "true"/"false" for a bool, str(v) otherwise
_yaml_val(val) ==
    CASE val.t = "bool" -> IF val.v THEN <<"t", "r", "u", "e">> ELSE <<"f", "a", "l", "s", "e">>
      [] val.t = "str" -> val.v
      [] val.t = "int" -> DecimalDigits(val.v)
      [] val.t = "none" -> <<"N", "o", "n", "e">>

\* the lines f"  {k}: {_yaml_val(v)}" of a block of scalars
scalar_lines(es) ==
    [i \in 1..Len(es) |-> <<" ", " ">> \o es[i].k \o <<":", " ">> \o _yaml_val(es[i].v)]

\* the lines render_config writes for one entry of structure
structure_lines(e) ==
    IF e.v.t = "list"
    THEN <<<<" ", " ">> \o e.k \o <<":">>>> \o
         [i \in 1..Len(e.v.v) |-> <<" ", " ", " ", " ", "-", " ">> \o e.v.v[i].v]
    ELSE <<<<" ", " ">> \o e.k \o <<":", " ">> \o _yaml_val(e.v)>>

RECURSIVE structure_block(_)
structure_block(es) ==
    IF Len(es) = 0 THEN <<>>
    ELSE structure_lines(es[1]) \o structure_block(Tail(es))

k_stack == <<"s", "t", "a", "c", "k">>
k_structure == <<"s", "t", "r", "u", "c", "t", "u", "r", "e">>
k_verification == <<"v", "e", "r", "i", "f", "i", "c", "a", "t", "i", "o", "n">>
k_disciplines == <<"d", "i", "s", "c", "i", "p", "l", "i", "n", "e", "s">>

Marker == <<"-", "-", "-">>

\* render_config(stack, structure, disciplines, verification)
render_config(stack, structure, disciplines, verification) ==
    join(<<Marker>>
         \o (IF Len(stack) > 0
             THEN <<k_stack \o <<":">>>> \o scalar_lines(stack) ELSE <<>>)
         \o (IF Len(structure) > 0
             THEN <<k_structure \o <<":">>>> \o structure_block(structure) ELSE <<>>)
         \o (IF Len(verification) > 0
             THEN <<k_verification \o <<":">>>> \o scalar_lines(verification) ELSE <<>>)
         \o (IF Len(disciplines) > 0
             THEN <<k_disciplines \o <<":">>>> \o scalar_lines(disciplines) ELSE <<>>)
         \o <<Marker,
              <<>>,
              <<"#", " ", "P", "r", "o", "j", "e", "c", "t", " ", "N", "o", "t", "e", "s">>,
              <<>>,
              <<"A", "d", "d", " ", "p", "r", "o", "j", "e", "c", "t", "-", "s", "p", "e", "c", "i", "f", "i", "c", " ", "c", "o", "n", "t", "e", "x", "t", " ", "h", "e", "r", "e", " ", "(", "o", "p", "t", "i", "o", "n", "a", "l", ",", " ", "f", "r", "e", "e", "-", "f", "o", "r", "m", ")", ".">>,
              <<>>>>)

(***************************************************************************)
(* software-discipline/hooks/lib/detect-stack.py: the functions that       *)
(* differ from the look-before-you-leap ones                               *)
(***************************************************************************)
\* detect_language(root): the root's marker files only
sd_detect_language(f) ==
    IF file_exists(f, "tsconfig.json") \/ file_exists(f, "tsconfig.base.json")
    THEN s_typescript
    ELSE IF manifest_exists(f.rootpkg) THEN s_javascript
    ELSE IF file_exists(f, "Cargo.toml") THEN <<"r", "u", "s", "t">>
    ELSE IF file_exists(f, "pyproject.toml") \/ file_exists(f, "setup.py") THEN <<"p", "y", "t", "h", "o", "n">>
    ELSE IF file_exists(f, "go.mod") THEN <<"g", "o">>
    ELSE <<>>

\* detect_runtime(language)
sd_detect_runtime(language) ==
    IF IsJsTs(language) THEN <<"n", "o", "d", "e">> ELSE <<>>

\* detect_from_deps(deps): the six table scans and the next rule, with no
\* scripts and no package manager to fall back on
sd_detect_from_deps(deps) == detect_from_deps(deps, PDict(<<>>), <<>>)

k_shared_dir == <<"s", "h", "a", "r", "e", "d", "_", "d", "i", "r">>

\* the body of the inner for loop of detect_structure, for one entry: three
\* independent ifs
sd_structure_entry(acc, workspace_parent, entry) ==
    LET pkg == read_json(entry.pkg)
        name == py_get(pkg, k_name, PStr(<<>>))
        entry_path == parent_name(workspace_parent) \o <<"/">> \o entry.name
        s1 == IF contains(lower(entry.name), <<"a", "p", "i">>) /\ workspace_parent = "packages"
              THEN DictSet(DictSet(acc.structure, k_shared_api_package, name),
                           k_shared_dir, PStr(entry_path))
              ELSE acc.structure
        s2 == IF lower(entry.name) \in {<<"a", "p", "i">>, <<"s", "e", "r", "v", "e", "r">>, <<"b", "a", "c", "k", "e", "n", "d">>}
                 /\ workspace_parent = "apps"
              THEN DictSet(s1, k_api_dir, PStr(entry_path)) ELSE s1
        s3 == IF lower(entry.name) \in {<<"w", "e", "b">>, <<"a", "p", "p">>, <<"c", "l", "i", "e", "n", "t">>, <<"f", "r", "o", "n", "t", "e", "n", "d">>}
                 /\ workspace_parent = "apps"
              THEN DictSet(s2, k_web_dir, PStr(entry_path)) ELSE s2
    IN  IF acc.exc # "" THEN acc
        ELSE IF ~truthy(pkg) THEN acc
        ELSE IF name.t = "exc" THEN [acc EXCEPT !.exc = name.v]
        ELSE [acc EXCEPT !.structure = s3]

\* detect_structure(root, is_monorepo): apps/ then packages/, each listed in
\* sorted order; a dict, or the exception
sd_detect_structure(f, is_monorepo) ==
    LET RECURSIVE entries(_, _, _)
        entries(acc, workspace_parent, es) ==
            IF Len(es) = 0 THEN acc
            ELSE entries(sd_structure_entry(acc, workspace_parent, es[1]),
                         workspace_parent, Tail(es))
        parent(acc, workspace_parent) ==
            IF dir_exists(f, workspace_parent)
            THEN entries(acc, workspace_parent, sorted(listdir(f, workspace_parent)))
            ELSE acc
        acc == parent(parent(NoStructure, "apps"), "packages")
    IN  IF ~is_monorepo THEN PDict(<<>>)
        ELSE IF acc.exc # "" THEN PExc(acc.exc)
        ELSE PDict(acc.structure)

\* build_config(root): (stack, structure, disciplines), or the first
\* exception a statement of it raises; it returns no verification map
sd_build_config(f) ==
    LET language == sd_detect_language(f)
        runtime == sd_detect_runtime(language)
        package_manager == detect_package_manager(f)
        is_monorepo == detect_monorepo(f)
        deps == dependency_set(f, language)
        from_deps == sd_detect_from_deps(deps.deps)
        structure == sd_detect_structure(f, is_monorepo.v)
    IN  IF is_monorepo.t = "exc" THEN Raised(is_monorepo.v)
        ELSE IF deps.exc # "" THEN Raised(deps.exc)
        ELSE IF from_deps.t = "exc" THEN Raised(from_deps.v)
        ELSE IF structure.t = "exc" THEN Raised(structure.v)
        ELSE [stack |-> build_stack(language, runtime, package_manager,
                                    is_monorepo.v, from_deps.v),
              structure |-> structure.v,
              disciplines |-> <<[k |-> k_api_contracts,
                                 v |-> PBool(should_enable_api_contracts(from_deps.v))],
                                [k |-> k_plan_enforcement, v |-> PBool(TRUE)]>>,
              verification |-> <<>>,
              exc |-> ""]

\* render_config(stack, structure, disciplines): every structure value on one
\* line, no verification block
sd_render_config(stack, structure, disciplines) ==
    render_config(stack, structure, disciplines, <<>>)

(***************************************************************************)
(* Bounds and the inputs drawn from them                                   *)
(***************************************************************************)
\* dependency names inserted into the DependencySet by one manifest
MaxDeps == 2

\* marker and lock files present in the project root
MaxMarkers == 2

\* entries listed in one workspace-parent directory
MaxEntries == 2

\* lines of a hand-written front-matter block
MaxLines == 4

\* script names declared by the root manifest's scripts mapping
MaxScripts == 2

\* the sequences without repetition of at most n members of S
DistinctSeqs(S, n) ==
    UNION {{s \in [1..k -> S] : \A i, j \in 1..k : i # j => s[i] # s[j]} : k \in 0..n}

\* the orders in which the members of a sequence can be listed
Reorderings(s) ==
    {[i \in 1..Len(s) |-> s[p[i]]] :
        p \in {q \in [1..Len(s) -> 1..Len(s)] :
                  \A i, j \in 1..Len(s) : i # j => q[i] # q[j]}}

Field(key, val) == [k |-> key, v |-> val]

Manifest(fields) == Json(PDict(fields))

\* a dependencies mapping with the given names as its keys, in that order
DepDict(names) == PDict([i \in 1..Len(names) |-> Field(names[i], PStr(<<"1">>))])

\* a scripts mapping with the given names, each running the same command
ScriptDict(names, command) ==
    PDict([i \in 1..Len(names) |-> Field(names[i], PStr(command))])

AbsentDir == [state |-> "absent", entries |-> <<>>]
Unlistable == [state |-> "unlistable", entries |-> <<>>]
Dir(entries) == [state |-> "ok", entries |-> entries]

Entry(name, tsconfig, pkg) == [name |-> name, tsconfig |-> tsconfig, pkg |-> pkg]

NoDirs == [p \in {"apps", "packages", "services", "libs"} |-> AbsentDir]

Snapshot(files, rootpkg, dirs) == [files |-> files, rootpkg |-> rootpkg, dirs |-> dirs]

EmptyFs == Snapshot({}, Missing, NoDirs)

RootFiles == {"tsconfig.json", "tsconfig.base.json", "Cargo.toml", "pyproject.toml",
              "setup.py", "go.mod", "pnpm-lock.yaml", "bun.lockb", "bun.lock",
              "yarn.lock", "package-lock.json", "pnpm-workspace.yaml", "turbo.json",
              "lerna.json", "nx.json"}

TableDeps(table) == {table[i].dep : i \in 1..Len(table)}

Tables == {frontend_map, backend_map, validation_map, styling_map, testing_map, orm_map}

\* Projects whose root manifest declares up to MaxDeps dependencies, taken
\* from one category table, "next" and a name no table lists.
DepSnapshots ==
    {Snapshot({}, Manifest(<<Field(k_dependencies, DepDict(names))>>), NoDirs) :
        names \in UNION {DistinctSeqs(TableDeps(tb) \cup {"next", "lodash"}, MaxDeps) :
                            tb \in Tables}}

\* the root manifest of the react/express/vitest scenario
ScenarioManifest ==
    Manifest(<<Field(k_dependencies, DepDict(<<"react", "express">>)),
               Field(k_devDependencies, DepDict(<<"vitest">>))>>)

RootManifests ==
    {Missing,
     Manifest(<<>>),
     ScenarioManifest,
     Manifest(<<Field(k_scripts, ScriptDict(<<k_test, k_build>>, <<"b", "u", "n", " ", "t", "e", "s", "t">>))>>),
     Manifest(<<Field(k_peerDependencies, DepDict(<<"jest", "next">>)),
                Field(k_scripts, ScriptDict(<<<<"t", "e", "s", "t", ":", "u", "n", "i", "t">>, <<"e", "s", "l", "i", "n", "t">>, <<"t", "s", "c">>, <<"t", "y", "p", "e", "c", "h", "e", "c", "k">>>>,
                                            <<"b", "u", "n", " ", "r", "u", "n", " ", "t", "e", "s", "t">>))>>),
     Manifest(<<Field(k_name, PStr(<<"a", "c", "m", "e">>)),
                Field(k_workspaces, PList(<<PStr(<<"a", "p", "p", "s", "/", "*">>)>>)),
                Field(k_scripts, ScriptDict(<<k_lint>>, <<"e", "s", "l", "i", "n", "t", " ", ".">>))>>)}

\* Projects with up to MaxMarkers marker or lock files in the root.
MarkerSnapshots ==
    {Snapshot(files, rootpkg, NoDirs) :
        files \in {S \in SUBSET RootFiles : Cardinality(S) <= MaxMarkers},
        rootpkg \in RootManifests}

\* manifest contents that are not a mapping of well-formed fields
MalformedManifests ==
    {Unreadable,
     Invalid,
     Json(PNone),
     Json(PInt(0)),
     Json(PInt(5)),
     Json(PBool(TRUE)),
     Json(PList(<<>>)),
     Json(PList(<<PInt(1)>>)),
     Json(PStr(<<"w", "o", "r", "k", "s", "p", "a", "c", "e", "s">>)),
     Manifest(<<Field(k_dependencies, PList(<<PStr(<<"r", "e", "a", "c", "t">>)>>)),
                Field(k_devDependencies, PStr(<<"v", "i", "t", "e", "s", "t">>)),
                Field(k_peerDependencies, PNone)>>),
     Manifest(<<Field(k_scripts, PStr(<<"b", "u", "i", "l", "d", "-", "a", "n", "d", "-", "t", "e", "s", "t">>))>>),
     Manifest(<<Field(k_scripts, PList(<<PStr(<<"l", "i", "n", "t">>)>>))>>),
     Manifest(<<Field(k_scripts, PInt(5))>>),
     Manifest(<<Field(k_scripts, PDict(<<Field(k_test, PNone)>>))>>)}

WellFormedMember ==
    Manifest(<<Field(k_name, PStr(<<"w", "e", "b">>)), Field(k_dependencies, DepDict(<<"vue">>))>>)

\* Projects whose root manifest or whose one workspace member's manifest is
\* malformed, with and without a bun lock file and a monorepo marker.
MalformedSnapshots ==
    {Snapshot(files, rootpkg,
              [NoDirs EXCEPT !["apps"] = Dir(<<Entry(<<"w", "e", "b">>, FALSE, member)>>)]) :
        files \in {{}, {"bun.lock"}, {"turbo.json"}},
        rootpkg \in MalformedManifests \cup {Manifest(<<>>), Missing},
        member \in MalformedManifests \cup {WellFormedMember, Missing}}

Package(name, deps) ==
    Manifest(<<Field(k_name, PStr(name)), Field(k_dependencies, DepDict(deps))>>)

AppEntries ==
    {Entry(<<"a", "p", "i">>, FALSE, Package(<<"@", "a", "c", "m", "e", "/", "a", "p", "i">>, <<"hono">>)),
     Entry(<<"W", "e", "b">>, TRUE, Package(<<"@", "a", "c", "m", "e", "/", "w", "e", "b">>, <<"next">>)),
     Entry(<<"d", "o", "c", "s">>, FALSE, Missing)}

PackageEntries ==
    {Entry(<<"u", "i">>, FALSE, Package(<<"@", "a", "c", "m", "e", "/", "u", "i">>, <<"react">>)),
     Entry(<<"a", "p", "i">>, FALSE, Package(<<"t", "r", "u", "e">>, <<>>)),
     Entry(<<"o", "p", "e", "n", "a", "p", "i">>, FALSE, Package(<<>>, <<>>)),
     Entry(<<"A", "P", "I", "-", "t", "y", "p", "e", "s">>, FALSE, Package(<<"2", "0", "2", "4">>, <<>>)),
     Entry(<<"i", "1", "8", "n">>, FALSE, Invalid)}

\* Monorepos with up to MaxEntries members under apps/ and under packages/,
\* listed by os.listdir in any order.
MonorepoSnapshots ==
    {Snapshot({"turbo.json"}, Manifest(<<Field(k_name, PStr(<<"a", "c", "m", "e">>))>>),
              [NoDirs EXCEPT !["apps"] = IF Len(apps) = 0 THEN AbsentDir ELSE Dir(apps),
                             !["packages"] = IF Len(packages) = 0 THEN Unlistable
                                             ELSE Dir(packages)]) :
        apps \in DistinctSeqs(AppEntries, MaxEntries),
        packages \in DistinctSeqs(PackageEntries, MaxEntries)}

\* the script names of the script table
ScriptNames == {script_map[i].script_name : i \in 1..Len(script_map)}

\* Projects whose root manifest declares up to MaxScripts scripts, in any
\* order, named from the script table or "dev".
ScriptSnapshots ==
    {Snapshot({}, Manifest(<<Field(k_scripts, ScriptDict(names, <<"x">>))>>), NoDirs) :
        names \in DistinctSeqs(ScriptNames \cup {<<"d", "e", "v">>}, MaxScripts)}

Snapshots ==
    DepSnapshots \cup MarkerSnapshots \cup MalformedSnapshots \cup MonorepoSnapshots
        \cup ScriptSnapshots

(***************************************************************************)
(* The pipeline: detect-stack.py main, then read-config.py main            *)
(***************************************************************************)
Init ==
    /\ fs \in Snapshots
    /\ pc = "start"
    /\ config = Raised("")
    /\ text = <<>>
    /\ lines = <<>>
    /\ idx = 1
    /\ result = <<>>
    /\ current_parent = NoParent
    /\ current_child_list = NoList
    /\ exc = ""

\* stack, structure, disciplines, verification = build_config(root)
BuildConfig ==
    /\ pc = "start"
    /\ config' = build_config(fs)
    /\ pc' = IF config'.exc # "" THEN "detect_raised" ELSE "built"
    /\ UNCHANGED <<fs, text>>
    /\ UNCHANGED parserVars

\* print(render_config(stack, structure, disciplines, verification), end="");
\* the caller writes it to the document path
RenderConfig ==
    /\ pc = "built"
    /\ text' = render_config(config.stack, config.structure, config.disciplines,
                             config.verification)
    /\ pc' = "document"
    /\ UNCHANGED <<fs, config>>
    /\ UNCHANGED parserVars

\* parse_frontmatter(text) up to the for loop: no match returns {}
ParseBegin ==
    /\ pc = "document"
    /\ LET match == frontmatter_match(text)
       IN  IF match.ok
           THEN /\ lines' = split(match.g1)
                /\ pc' = "parsing"
           ELSE /\ lines' = <<>>
                /\ pc' = "parsed"
    /\ idx' = 1
    /\ result' = <<>>
    /\ current_parent' = NoParent
    /\ current_child_list' = NoList
    /\ exc' = ""
    /\ UNCHANGED <<fs, config, text>>

\* one iteration of "for line in lines"
ParseLine ==
    /\ pc = "parsing"
    /\ idx <= Len(lines)
    /\ LET st == parse_line(ParserState(result, current_parent, current_child_list, exc),
                            lines[idx])
       IN  /\ result' = st.result
           /\ current_parent' = st.current_parent
           /\ current_child_list' = st.current_child_list
           /\ exc' = st.exc
           /\ pc' = IF st.exc # "" THEN "parse_raised" ELSE "parsing"
    /\ idx' = idx + 1
    /\ UNCHANGED <<fs, config, text, lines>>

\* return result
ParseReturn ==
    /\ pc = "parsing"
    /\ idx > Len(lines)
    /\ pc' = "parsed"
    /\ UNCHANGED <<fs, config, text, lines, idx, result, current_parent,
                   current_child_list, exc>>

\* software-discipline main: stack, structure, disciplines = build_config(root)
SdBuildConfig ==
    /\ pc = "start"
    /\ config' = sd_build_config(fs)
    /\ pc' = IF config'.exc # "" THEN "sd_raised" ELSE "sd_built"
    /\ UNCHANGED <<fs, text>>
    /\ UNCHANGED parserVars

\* software-discipline main: print(render_config(stack, structure, disciplines), end="")
SdRenderConfig ==
    /\ pc = "sd_built"
    /\ text' = sd_render_config(config.stack, config.structure, config.disciplines)
    /\ pc' = "sd_document"
    /\ UNCHANGED <<fs, config>>
    /\ UNCHANGED parserVars

Next ==
    \/ BuildConfig \/ RenderConfig \/ ParseBegin \/ ParseLine \/ ParseReturn
    \/ SdBuildConfig \/ SdRenderConfig

Spec == Init /\ [][Next]_vars

(***************************************************************************)
(* Hand-written documents given to read-config.py                          *)
(***************************************************************************)
\* the lines hand-written front matter is made of
LinePool ==
    {<<"a", ":">>,
     <<"a", ":", " ", "1">>,
     <<" ", " ", "c", ":", " ", "x">>,
     <<" ", " ", "d", ":">>,
     <<" ", " ", " ", " ", "-", " ", "y">>,
     <<>>,
     <<" ", " ", "#", " ", "z">>,
     <<"n", ":", " ", "U+00B2">>}

\* the text of a document whose front matter holds the given lines
Document(body) == join(<<Marker>> \o body \o <<Marker, <<>>>>)

\* the document of the parsing scenario
ScenarioDocument ==
    <<"-", "-", "-", "\n", "s", "t", "a", "c", "k", ":", "\n", " ", " ", "l", "a", "n", "g", "u", "a", "g", "e", ":", " ", "t", "y", "p", "e", "s", "c", "r", "i", "p", "t", "\n", " ", " ", "m", "o", "n", "o", "r", "e", "p", "o", ":", " ", "t", "r", "u", "e", "\n", "s", "t", "r", "u", "c", "t", "u", "r", "e", ":", "\n", " ", " ", "s", "h", "a", "r", "e", "d", "_", "p", "a", "c", "k", "a", "g", "e", "s", ":", "\n", " ", " ", " ", " ", "-", " ", "p", "a", "c", "k", "a", "g", "e", "s", "/", "i", "1", "8", "n", "\n", " ", " ", " ", " ", "-", " ", "p", "a", "c", "k", "a", "g", "e", "s", "/", "u", "i", "\n", "-", "-", "-", "\n">>

OtherDocuments ==
    {<<>>,
     <<"#", " ", "P", "r", "o", "j", "e", "c", "t", " ", "N", "o", "t", "e", "s", "\n">>,
     <<"-", "-", "-", "\n", "a", ":", " ", "1", "\n">>,
     <<"a", ":", " ", "1", "\n", "-", "-", "-", "\n">>,
     <<"-", "-", "-", "\n", "-", "-", "-", "\n">>,
     <<"-", "-", "-", "\n", "\n", "-", "-", "-", "\n">>,
     <<"-", "-", "-", "\n", "a", ":", " ", "1", "\n", "-", "-", "-", "x", ":", " ", "2", "\n">>,
     <<"-", "-", "-", "-", "\n", "a", ":", " ", "1", "\n", "-", "-", "-", "\n">>,
     <<"-", "-", "-", " ", "\t", "\n", "\n", " ", "\n", "a", ":", " ", "1", "\n", "-", "-", "-", "\n", "\n", "b", ":", " ", "2", "\n", "-", "-", "-", "\n">>,
     <<"-", "-", "-", "\n", "b", ":", " ", "T", "R", "U", "E", "\n", "c", ":", " ", "'", "q", "'", "\n", "d", ":", " ", "\"", "\n", "e", ":", " ", "0", "0", "7", "\n", "f", " ", ":", " ", "x", " ", "y", " ", "\n", "g", ":", " ", "\"", "r", "'", "\n", "-", "-", "-", "\n">>,
     <<"-", "-", "-", "\n", "a", ":", "\n", "\t", "k", ":", " ", "v", "\n", " ", " ", "k", " ", ":", " ", " ", "F", "a", "l", "s", "e", " ", "\n", " ", " ", "l", ":", "\n", " ", "-", " ", " ", "\n", "\t", "-", " ", "'", "y", "'", "\n", " ", " ", " ", " ", "-", "z", "\n", " ", " ", " ", " ", "-", " ", "8", "\n", "-", "-", "-", "\n">>,
     <<"-", "-", "-", "\n", "a", ":", "\n", " ", " ", "l", ":", "\n", " ", " ", " ", " ", "-", " ", "y", "\n", " ", " ", "#", " ", "z", "\n", " ", " ", " ", " ", "-", " ", "w", "\n", " ", " ", "c", ":", " ", "x", "\n", "-", "-", "-", "\n">>,
     <<"-", "-", "-", "\n", "a", ":", "\n", " ", " ", "l", ":", "\n", " ", " ", " ", " ", "-", " ", "y", "\n", "\n", " ", " ", " ", " ", "-", " ", "w", "\n", " ", " ", "c", ":", " ", "x", "\n", "-", "-", "-", "\n">>}

Documents ==
    {Document(body) : body \in UNION {[1..k -> LinePool] : k \in 0..MaxLines}}
        \cup {ScenarioDocument} \cup OtherDocuments

InitParser ==
    /\ text \in Documents
    /\ pc = "document"
    /\ fs = EmptyFs
    /\ config = Raised("")
    /\ lines = <<>>
    /\ idx = 1
    /\ result = <<>>
    /\ current_parent = NoParent
    /\ current_child_list = NoList
    /\ exc = ""

NextParser == ParseBegin \/ ParseLine \/ ParseReturn

SpecParser == InitParser /\ [][NextParser]_vars

(***************************************************************************)
(* Properties                                                              *)
(***************************************************************************)
\* two mappings are equal: the same keys, each with the same value
SameMapping(a, b) ==
    /\ {a[i].k : i \in 1..Len(a)} = {b[i].k : i \in 1..Len(b)}
    /\ \A i \in 1..Len(a) : DictGet(b, a[i].k) = a[i].v

\* the block of the parsed mapping equals its source structure, and is absent
\* exactly when the source structure is empty
BlockRoundTrips(key, source) ==
    IF Len(source) = 0 THEN ~DictHas(result, key)
    ELSE /\ DictHas(result, key)
         /\ DictGet(result, key).t = "dict"
         /\ SameMapping(DictGet(result, key).v, source)

\* C1: parsing the rendered document gives back the stack, structure,
\* verification and disciplines that build_config produced: every scalar with
\* its value and type, every list with its elements in order, and a block
\* absent exactly when its source structure is empty.
RoundTrip ==
    pc = "parsed" /\ config.exc = "" =>
        /\ BlockRoundTrips(k_stack, config.stack)
        /\ BlockRoundTrips(k_structure, config.structure)
        /\ BlockRoundTrips(k_verification, config.verification)
        /\ BlockRoundTrips(k_disciplines, config.disciplines)

\* a marker line: the marker, then white space only
IsMarkerLine(line) == startswith(line, Marker) /\ strip(line) = Marker

\* the text holds a block bounded by two marker lines, the first of them
\* being its first line
HasFrontMatterBlock(txt) ==
    /\ IsMarkerLine(split(txt)[1])
    /\ \E i \in 2..Len(split(txt)) : IsMarkerLine(split(txt)[i])

\* C2: parse_frontmatter never raises and returns a mapping for every text,
\* the empty mapping when the text holds no block bounded by two marker lines.
ParserTotal ==
    /\ pc # "parse_raised"
    /\ exc = ""
    /\ (pc = "parsed" /\ ~HasFrontMatterBlock(text) => result = <<>>)

\* the DependencySet build_config classifies, in its iteration order
DependencySet == dependency_set(fs, detect_language(fs)).deps

\* the DependencySet build_config classifies, as a set of names
DependencyNames == {DependencySet[i] : i \in 1..Len(DependencySet)}

\* the entries of a table whose dependency name is in the DependencySet
Matches(table) ==
    LET names == DependencyNames
    IN  {i \in 1..Len(table) : table[i].dep \in names}

\* the category holds the value of the table's earliest matching entry; when
\* no entry matches it is absent, or holds the one value another rule gives it
FirstMatchWins(category, table, other) ==
    LET matches == Matches(table)
    IN  IF matches # {}
        THEN /\ DictHas(config.stack, category)
             /\ DictGet(config.stack, category) =
                    PStr(table[CHOOSE i \in matches : \A j \in matches : i <= j].name)
        ELSE \/ ~DictHas(config.stack, category)
             \/ (other # <<>> /\ DictGet(config.stack, category) = PStr(other))

\* the stack build_config assembles from what it detected when the
\* DependencySet iterates in order d
StackWithDependencyOrder(d, language, package_manager, is_monorepo, root_scripts) ==
    build_stack(language, detect_runtime(language, package_manager), package_manager,
                is_monorepo, detect_from_deps(d, root_scripts, package_manager).v)

\* C3: each category table's scan sets the category to the value of the
\* earliest entry, in declared order, whose name is in the DependencySet, and
\* sets nothing when none matches; the order of insertion does not matter.
TableOrderDecides ==
    pc = "built" =>
        /\ FirstMatchWins(k_frontend, frontend_map, <<>>)
        /\ FirstMatchWins(k_backend, backend_map, <<"n", "e", "x", "t">>)
        /\ FirstMatchWins(k_validation, validation_map, <<>>)
        /\ FirstMatchWins(k_styling, styling_map, <<>>)
        /\ FirstMatchWins(k_testing, testing_map, <<"b", "u", "n", "-", "t", "e", "s", "t">>)
        /\ FirstMatchWins(k_orm, orm_map, <<>>)
        /\ LET language == detect_language(fs)
               package_manager == detect_package_manager(fs)
               is_monorepo == detect_monorepo(fs).v
               root_scripts == root_scripts_of(fs)
           IN  \A d \in Reorderings(DependencySet) :
                   StackWithDependencyOrder(d, language, package_manager, is_monorepo,
                                            root_scripts) = config.stack

\* C3 witness: express was inserted before hono, and hono, the earlier entry
\* of the backend table, is the backend.
TableOrderDecidesWitness ==
    /\ pc = "built"
    /\ DependencySet = <<"express", "hono">>
    /\ DictGet(config.stack, k_backend) = PStr(<<"h", "o", "n", "o">>)

LockFiles == {"pnpm-lock.yaml", "bun.lockb", "bun.lock", "yarn.lock", "package-lock.json"}

MonorepoMarkers == {"pnpm-workspace.yaml", "turbo.json", "lerna.json", "nx.json"}

TsConfigs == {"tsconfig.json", "tsconfig.base.json"}

\* the project of the scenario: the root manifest declares react, express
\* and vitest; no lock file, no tsconfig, no monorepo marker, no member
ScenarioProject ==
    /\ fs.rootpkg = ScenarioManifest
    /\ fs.files \cap (LockFiles \cup TsConfigs \cup MonorepoMarkers) = {}
    /\ fs.dirs = NoDirs

ScenarioDisciplines ==
    <<Field(k_api_contracts, PBool(TRUE)), Field(k_plan_enforcement, PBool(TRUE))>>

\* C4 as stated: the scenario's StackProfile has language, monorepo,
\* frontend, backend and testing, and no other field.
ScenarioStackAsStated ==
    pc = "built" /\ ScenarioProject =>
        /\ SameMapping(config.stack,
               <<Field(k_language, PStr(s_javascript)),
                 Field(k_monorepo, PBool(FALSE)),
                 Field(k_frontend, PStr(<<"r", "e", "a", "c", "t">>)),
                 Field(k_backend, PStr(<<"e", "x", "p", "r", "e", "s", "s">>)),
                 Field(k_testing, PStr(<<"v", "i", "t", "e", "s", "t">>))>>)
        /\ SameMapping(config.disciplines, ScenarioDisciplines)

\* C4 amended: the scenario's StackProfile also has runtime "node", which
\* detect_runtime derives from the language javascript.
ScenarioStack ==
    pc = "built" /\ ScenarioProject =>
        /\ SameMapping(config.stack,
               <<Field(k_language, PStr(s_javascript)),
                 Field(k_runtime, PStr(<<"n", "o", "d", "e">>)),
                 Field(k_monorepo, PBool(FALSE)),
                 Field(k_frontend, PStr(<<"r", "e", "a", "c", "t">>)),
                 Field(k_backend, PStr(<<"e", "x", "p", "r", "e", "s", "s">>)),
                 Field(k_testing, PStr(<<"v", "i", "t", "e", "s", "t">>))>>)
        /\ SameMapping(config.disciplines, ScenarioDisciplines)

\* C4 witness: build_config has run on the scenario's project.
ScenarioStackWitness ==
    /\ pc = "built"
    /\ ScenarioProject
    /\ DictHas(config.stack, k_runtime)
    /\ DictGet(config.stack, k_testing) = PStr(<<"v", "i", "t", "e", "s", "t">>)

\* the lines of the text between its first line and the next marker
FrontMatterLines(txt) ==
    LET ls == split(txt)
        close == CHOOSE i \in 2..Len(ls) : ls[i] = Marker /\ \A j \in 2..(i - 1) : ls[j] # Marker
    IN  SubSeq(ls, 2, close - 1)

\* the project of the boundary case: an empty root manifest and nothing else
EmptyManifestProject == fs = Snapshot({}, Manifest(<<>>), NoDirs)

\* C5 as stated: the document of the empty-manifest project holds only
\* monorepo: false in its stack block, and the disciplines block.
EmptyManifestDocumentAsStated ==
    pc = "document" /\ EmptyManifestProject =>
        FrontMatterLines(text) =
            <<<<"s", "t", "a", "c", "k", ":">>,
              <<" ", " ", "m", "o", "n", "o", "r", "e", "p", "o", ":", " ", "f", "a", "l", "s", "e">>,
              <<"d", "i", "s", "c", "i", "p", "l", "i", "n", "e", "s", ":">>,
              <<" ", " ", "a", "p", "i", "_", "c", "o", "n", "t", "r", "a", "c", "t", "s", ":", " ", "f", "a", "l", "s", "e">>,
              <<" ", " ", "p", "l", "a", "n", "_", "e", "n", "f", "o", "r", "c", "e", "m", "e", "n", "t", ":", " ", "t", "r", "u", "e">>>>

\* C5 amended: the stack block also holds language: javascript and
\* runtime: node, which the presence of the manifest file implies; there is
\* no framework field and no structure or verification block.
EmptyManifestDocument ==
    pc = "document" /\ EmptyManifestProject =>
        FrontMatterLines(text) =
            <<<<"s", "t", "a", "c", "k", ":">>,
              <<" ", " ", "l", "a", "n", "g", "u", "a", "g", "e", ":", " ", "j", "a", "v", "a", "s", "c", "r", "i", "p", "t">>,
              <<" ", " ", "r", "u", "n", "t", "i", "m", "e", ":", " ", "n", "o", "d", "e">>,
              <<" ", " ", "m", "o", "n", "o", "r", "e", "p", "o", ":", " ", "f", "a", "l", "s", "e">>,
              <<"d", "i", "s", "c", "i", "p", "l", "i", "n", "e", "s", ":">>,
              <<" ", " ", "a", "p", "i", "_", "c", "o", "n", "t", "r", "a", "c", "t", "s", ":", " ", "f", "a", "l", "s", "e">>,
              <<" ", " ", "p", "l", "a", "n", "_", "e", "n", "f", "o", "r", "c", "e", "m", "e", "n", "t", ":", " ", "t", "r", "u", "e">>>>

\* C5 witness: the document of the empty-manifest project has been rendered.
EmptyManifestDocumentWitness ==
    /\ pc = "document"
    /\ EmptyManifestProject
    /\ <<" ", " ", "m", "o", "n", "o", "r", "e", "p", "o", ":", " ", "f", "a", "l", "s", "e">> \in {split(text)[i] : i \in 1..Len(split(text))}

\* the snapshot with its directory listings returned in another order
ListingVariants(f) ==
    {[f EXCEPT !.dirs = [p \in DOMAIN f.dirs |->
                            [f.dirs[p] EXCEPT !.entries =
                                IF p = "apps" THEN a
                                ELSE IF p = "packages" THEN b
                                ELSE IF p = "services" THEN c
                                ELSE d]]] :
        a \in Reorderings(f.dirs["apps"].entries),
        b \in Reorderings(f.dirs["packages"].entries),
        c \in Reorderings(f.dirs["services"].entries),
        d \in Reorderings(f.dirs["libs"].entries)}

\* the snapshot with the root manifest's dependencies declared in another order
DependencyOrderVariants(f) ==
    IF /\ read_json(f.rootpkg).t = "dict"
       /\ DictHas(read_json(f.rootpkg).v, k_dependencies)
       /\ DictGet(read_json(f.rootpkg).v, k_dependencies).t = "dict"
    THEN {[f EXCEPT !.rootpkg =
              Manifest(DictSet(read_json(f.rootpkg).v, k_dependencies, PDict(d)))] :
             d \in Reorderings(DictGet(read_json(f.rootpkg).v, k_dependencies).v)}
    ELSE {f}

\* C6: a second run on the same snapshot renders the same text, whatever
\* order the directory listings come in and whatever order the dependency
\* names are inserted and iterated in.
Deterministic ==
    pc = "document" =>
        \A f \in ListingVariants(fs) \cup DependencyOrderVariants(fs) :
            LET built == build_config(f)
            IN  /\ built.exc = ""
                /\ render_config(built.stack, built.structure, built.disciplines,
                                 built.verification) = text

\* C6 witness: a document was rendered for a monorepo whose packages/
\* listing came unsorted, with both packages recorded.
DeterministicWitness ==
    /\ pc = "document"
    /\ Len(fs.dirs["packages"].entries) = 2
    /\ str_lt(fs.dirs["packages"].entries[2].name, fs.dirs["packages"].entries[1].name)
    /\ DictHas(config.structure, k_shared_packages)
    /\ Len(DictGet(config.structure, k_shared_packages).v) = 2

\* a manifest the claim calls malformed: unreadable, not JSON, JSON that is
\* not a mapping, or a mapping whose dependencies or scripts are not mappings
IsMalformed(file) ==
    \/ file.state \in {"unreadable", "invalid"}
    \/ file.state = "json" /\ file.value.t # "dict"
    \/ /\ file.state = "json"
       /\ file.value.t = "dict"
       /\ \E key \in {k_dependencies, k_devDependencies, k_peerDependencies, k_scripts} :
              DictHas(file.value.v, key) /\ DictGet(file.value.v, key).t # "dict"

\* the manifest file with its content gone when it is malformed
AsAbsent(file) == IF IsMalformed(file) THEN Invalid ELSE file

\* the snapshot with the content of every malformed manifest gone
WithoutMalformed(f) ==
    [f EXCEPT !.rootpkg = AsAbsent(@),
              !.dirs = [p \in DOMAIN @ |->
                           [@[p] EXCEPT !.entries =
                               [i \in 1..Len(@) |-> [@[i] EXCEPT !.pkg = AsAbsent(@)]]]]]

\* C7: build_config never raises, whatever the manifests hold, and a
\* malformed manifest contributes what a manifest without content does.
MalformedIsAbsent ==
    /\ pc # "detect_raised"
    /\ (pc = "built" => config = build_config(WithoutMalformed(fs)))

\* C10: with next in the DependencySet and no backend-table dependency,
\* backend is "next" unless the frontend was set by the next entry itself,
\* in which case next sets no backend.
NextImpliesBackend ==
    pc = "built" /\ "next" \in DependencyNames /\ Matches(backend_map) = {} =>
        IF frontend_map[CHOOSE i \in Matches(frontend_map) :
                            \A j \in Matches(frontend_map) : i <= j].dep = "next"
        THEN ~DictHas(config.stack, k_backend)
        ELSE /\ DictHas(config.stack, k_backend)
             /\ DictGet(config.stack, k_backend) = PStr(<<"n", "e", "x", "t">>)

\* a step that runs one iteration of the parser's loop
ParsesLine == pc = "parsing" /\ idx <= Len(lines) /\ idx' = idx + 1

IsBlank(line) == strip(line) = <<>>

IsComment(line) == startswith(strip(line), <<"#">>)

\* an indented dash-prefixed line
IsListItem(line) == list_match(line).ok

\* an indented child-key line, with or without a value after the colon
IsChildKey(line) == startswith(line, <<" ", " ">>) /\ child_match(line).ok

IsValuelessChildKey(line) == IsChildKey(line) /\ strip(child_match(line).g2) = <<>>

\* the sequence r holds under r[parent][child]
ListAt(r, parent, child) == DictGet(DictGet(r, parent).v, child).v

ListCollectionStep ==
    LET line == lines[idx]
        key == child_match(line).g1
        item == _coerce(strip(list_match(line).g1))
    IN  /\ (current_parent.set /\ IsValuelessChildKey(line) =>
                /\ current_child_list' = ChildList(current_parent.key, key)
                /\ DictGet(DictGet(result', current_parent.key).v, key) = PList(<<>>))
        /\ (current_child_list.set /\ IsListItem(line) /\ exc' = "" =>
                /\ current_child_list' = current_child_list
                /\ ListAt(result', current_child_list.parent, current_child_list.child) =
                       Append(ListAt(result, current_child_list.parent,
                                     current_child_list.child), item))
        /\ (~IsListItem(line) /\ ~(current_parent.set /\ IsValuelessChildKey(line)) =>
                ~current_child_list'.set)
        /\ (IsListItem(line) /\ ~current_child_list.set => result' = result)

ScenarioResult ==
    <<Field(k_stack, PDict(<<Field(k_language, PStr(s_typescript)),
                             Field(k_monorepo, PBool(TRUE))>>)),
      Field(k_structure,
            PDict(<<Field(k_shared_packages,
                          PList(<<PStr(<<"p", "a", "c", "k", "a", "g", "e", "s", "/", "i", "1", "8", "n">>), PStr(<<"p", "a", "c", "k", "a", "g", "e", "s", "/", "u", "i">>)>>))>>))>>

\* C8: a value-less child key opens an empty sequence and starts list
\* collection; each directly following dash-prefixed line appends its coerced
\* scalar; the first other line ends the collection, after which a
\* dash-prefixed line changes nothing; the scenario text parses as stated.
ListCollection ==
    /\ [][ParsesLine => ListCollectionStep]_vars
    /\ [](pc = "parsed" /\ text = ScenarioDocument => SameMapping(result, ScenarioResult))

\* C8 witness: the scenario text has been parsed into its two blocks, the
\* second holding the two collected items.
ListCollectionWitness ==
    /\ pc = "parsed"
    /\ text = ScenarioDocument
    /\ Len(ListAt(result, k_structure, k_shared_packages)) = 2

\* the line before the one being parsed was blank, or a comment
AfterBlank == idx > 1 /\ IsBlank(lines[idx - 1])

AfterComment == idx > 1 /\ IsComment(lines[idx - 1])

\* C9 as stated: a blank line and a comment line both clear the current
\* parent and the current list, so that the next line, an indented key: value
\* or a dash-prefixed one, is added to nothing.
BlankOrCommentClearsAsStated ==
    [][ParsesLine =>
          /\ (IsBlank(lines[idx]) \/ IsComment(lines[idx]) =>
                  ~current_parent'.set /\ ~current_child_list'.set)
          /\ ((AfterBlank \/ AfterComment)
                  /\ (IsChildKey(lines[idx]) \/ IsListItem(lines[idx])) =>
                  result' = result)]_vars

\* C9 amended: a blank line clears both; a comment line clears the current
\* list and keeps the current parent, so that a dash-prefixed line after
\* either is appended to nothing, an indented key: value line after a blank
\* line is added to nothing, and one after a comment line is added to the
\* mapping that was open before the comment.
BlankOrCommentClears ==
    [][ParsesLine =>
          /\ (IsBlank(lines[idx]) => ~current_parent'.set /\ ~current_child_list'.set)
          /\ (IsComment(lines[idx]) =>
                  current_parent' = current_parent /\ ~current_child_list'.set)
          /\ ((AfterBlank \/ AfterComment) /\ IsListItem(lines[idx]) => result' = result)
          /\ (AfterBlank /\ IsChildKey(lines[idx]) => result' = result)
          /\ (AfterComment /\ IsChildKey(lines[idx]) /\ current_parent.set /\ exc' = "" =>
                  DictHas(DictGet(result', current_parent.key).v,
                          child_match(lines[idx]).g1))]_vars

CommentedDocument == <<"-", "-", "-", "\n", "a", ":", "\n", " ", " ", "l", ":", "\n", " ", " ", " ", " ", "-", " ", "y", "\n", " ", " ", "#", " ", "z", "\n", " ", " ", " ", " ", "-", " ", "w", "\n", " ", " ", "c", ":", " ", "x", "\n", "-", "-", "-", "\n">>

\* C9 witness: in a block with a comment between a list and a child key, the
\* item after the comment was dropped and the key was added to the block.
BlankOrCommentClearsWitness ==
    /\ pc = "parsed"
    /\ text = CommentedDocument
    /\ result = <<Field(<<"a">>,
                        PDict(<<Field(<<"l">>, PList(<<PStr(<<"y">>)>>)),
                                Field(<<"c">>, PStr(<<"x">>))>>))>>

(***************************************************************************)
(* Verification commands                                                   *)
(***************************************************************************)
VerificationCategories == {k_typecheck, k_lint, k_test, k_build}

\* the root manifest as read, and whether it is absent, lacks a scripts
\* field, or has a scripts field that is a mapping
RootManifest == read_json(fs.rootpkg)

ScriptsAbsent ==
    \/ RootManifest.t = "none"
    \/ RootManifest.t = "dict" /\ ~DictHas(RootManifest.v, k_scripts)

ScriptsIsMapping ==
    /\ RootManifest.t = "dict"
    /\ DictHas(RootManifest.v, k_scripts)
    /\ DictGet(RootManifest.v, k_scripts).t = "dict"

DeclaredScripts == DictGet(RootManifest.v, k_scripts).v

\* the positions of the script table that map to the category and whose
\* script name the scripts mapping declares
DeclaredAt(scripts, category) ==
    {i \in 1..Len(script_map) :
        script_map[i].category = category /\ DictHas(scripts, script_map[i].script_name)}

Earliest(positions) == CHOOSE i \in positions : \A j \in positions : i <= j

\* every category holds at most one name, the earliest declared one of the table
FirstDeclaredPerCategory(commands, scripts) ==
    /\ \A i, j \in 1..Len(commands) : commands[i].k = commands[j].k => i = j
    /\ \A i \in 1..Len(commands) : commands[i].k \in VerificationCategories
    /\ \A category \in VerificationCategories :
           IF DeclaredAt(scripts, category) = {}
           THEN ~DictHas(commands, category)
           ELSE /\ DictHas(commands, category)
                /\ DictGet(commands, category)
                       = PStr(script_map[Earliest(DeclaredAt(scripts, category))].script_name)

\* C11: for every scripts mapping of the root manifest the VerificationMap
\* holds, per category, exactly the earliest entry of the script table that
\* the mapping declares and nothing for a category with no declared entry;
\* the map is empty when the manifest or its scripts field is absent; and
\* build_config returns that map.
FirstScriptWins ==
    pc = "built" =>
        LET commands == detect_verification_commands(fs)
        IN  /\ ScriptsAbsent => commands = PDict(<<>>)
            /\ ScriptsIsMapping =>
                   /\ commands.t = "dict"
                   /\ FirstDeclaredPerCategory(commands.v, DeclaredScripts)
            /\ ScriptsAbsent \/ ScriptsIsMapping => config.verification = commands.v

\* C11 witness: the manifest declares two scripts of one category, the one
\* the table lists later first, and the built map holds the earlier one.
FirstScriptWinsWitness ==
    /\ pc = "built"
    /\ ScriptsIsMapping
    /\ \E i, j \in 1..Len(script_map) :
           /\ i < j
           /\ script_map[i].category = script_map[j].category
           /\ \E a, b \in 1..Len(DeclaredScripts) :
                  /\ a < b
                  /\ DeclaredScripts[a].k = script_map[j].script_name
                  /\ DeclaredScripts[b].k = script_map[i].script_name
           /\ DictHas(config.verification, script_map[i].category)
           /\ DictGet(config.verification, script_map[i].category)
                  = PStr(script_map[i].script_name)

(***************************************************************************)
(* Runtime derivation                                                      *)
(***************************************************************************)
\* a field of the built StackProfile, <<>> standing for an absent field
StackField(key) ==
    IF DictHas(config.stack, key) THEN DictGet(config.stack, key).v ELSE <<>>

\* the runtime the detected language and package manager call for
DerivedRuntime ==
    IF StackField(k_package_manager) = s_bun THEN s_bun
    ELSE IF IsJsTs(StackField(k_language)) THEN <<"n", "o", "d", "e">>
    ELSE <<>>

RuntimeAsDerived ==
    IF DerivedRuntime = <<>> THEN ~DictHas(config.stack, k_runtime)
    ELSE /\ DictHas(config.stack, k_runtime)
         /\ DictGet(config.stack, k_runtime) = PStr(DerivedRuntime)

\* C12: in every StackProfile build_config returns, of either detect-stack
\* module, the runtime is "bun" when the package manager is bun, whatever the
\* language; otherwise "node" exactly when the language is typescript or
\* javascript; otherwise the runtime field is absent.
RuntimeDerivation == pc \in {"built", "sd_built"} => RuntimeAsDerived

\* the same for the look-before-you-leap module alone
RuntimeDerivationLookBeforeYouLeap == pc = "built" => RuntimeAsDerived

(***************************************************************************)
(* Parser state                                                            *)
(***************************************************************************)
\* the current parent names a mapping of the result
ParentIsMapping ==
    current_parent.set =>
        /\ DictHas(result, current_parent.key)
        /\ DictGet(result, current_parent.key).t = "dict"

\* the current list names a sequence inside a mapping of the result
ChildListIsSequence ==
    current_child_list.set =>
        /\ DictHas(result, current_child_list.parent)
        /\ DictGet(result, current_child_list.parent).t = "dict"
        /\ DictHas(DictGet(result, current_child_list.parent).v, current_child_list.child)
        /\ DictGet(DictGet(result, current_child_list.parent).v,
                   current_child_list.child).t = "list"

\* a top-level key occurs on two lines of the block
KeyDefinedTwice ==
    \E i, j \in 1..Len(lines) :
        /\ i < j
        /\ top_match(lines[i]).ok
        /\ top_match(lines[j]).ok
        /\ top_match(lines[i]).g1 = top_match(lines[j]).g1

\* C13: after every processed line, a set current parent names a mapping of
\* the result and a set current list names a sequence inside a mapping of
\* the result, so that no child assignment and no list append ever fails on
\* a missing key or on a scalar.
ParserStateInvariant ==
    /\ ParentIsMapping
    /\ ChildListIsSequence
    /\ exc \notin {"KeyError", "TypeError", "AttributeError"}

\* C13 witness: in a block that defines a top-level key twice, the last one
\* a scalar, a later indented child line and a later list item were read
\* with nothing open, and the parser returned.
ParserStateInvariantWitness ==
    /\ pc = "parsed"
    /\ KeyDefinedTwice
    /\ \E i, j, k \in 1..Len(lines) :
           /\ i < j /\ j < k
           /\ top_match(lines[i]).ok /\ strip(top_match(lines[i]).g2) = <<>>
           /\ top_match(lines[j]).ok /\ strip(top_match(lines[j]).g2) # <<>>
           /\ top_match(lines[i]).g1 = top_match(lines[j]).g1
           /\ IsChildKey(lines[k]) \/ IsListItem(lines[k])
    /\ ~current_parent.set

====
